---------------------------- MODULE Spec2Model ----------------------------
(***************************************************************************)
(* License inventory: the relational store (src/shared/schema.ts), the    *)
(* DatabaseStorage methods and the HTTP handlers that call them            *)
(* (src/server/routes.ts).                                                 *)
(*                                                                         *)
(* Representation                                                          *)
(*   - a table is a sequence of rows in heap order; a row is a record      *)
(*     with one field per column;                                          *)
(*   - softwareName and the search text are sequences of one-character     *)
(*     strings, so that LIKE and toLowerCase work on characters;           *)
(*   - a timestamp is the clock reading `now`, counted in hours; a         *)
(*     calendar date is a day number;                                      *)
(*   - cost is a decimal(10,2), kept as an integer number of cents;        *)
(*   - a JavaScript double is a record [e, m]: m is the 53-bit mantissa   *)
(*     as a sequence of bits, most significant first, with m[1] = 1, and   *)
(*     the value is m[1]*2^e + m[2]*2^(e-1) + ...; zero is DZero.          *)
(*   - the columns licenseType, purchaseDate, contactPerson and           *)
(*     description are carried through unread by every method modelled     *)
(*     here and are left out of the rows.                                  *)
(***************************************************************************)
EXTENDS Integers, Sequences, FiniteSets, TLC

VARIABLES
    teams,      \* table teams
    vendors,    \* table vendors
    licenses,   \* table licenses
    nextId,     \* the next value gen_random_uuid() hands out
    now,        \* the clock, in hours since day 0, 00:00 UTC
    zone,       \* the server's time zone (process environment)
    req         \* the requests in flight: req[r] is handler r's position

vars == <<teams, vendors, licenses, nextId, now, zone, req>>

-----------------------------------------------------------------------------
(* Bounds of the model *)

MaxReqs == 2        \* handlers running at the same time
MaxHour == 2        \* the clock stops here (Spec)
MaxLicenses == 2    \* rows of table licenses (Spec, SpecMetrics, SpecSearch)
MaxIds == 5         \* ids handed out (Spec)
MaxNames == 4       \* rows of table licenses (SpecDuplicates)
MaxMetricIds == 7   \* ids handed out (SpecMetrics)
MaxRowIds == 9      \* ids handed out (SpecSearch, SpecExpiry, SpecDuplicates)
MaxClock == 25      \* the clock stops here (SpecExpiry)
MaxDays == 2        \* largest `days` argument of getExpiringLicenses

Reqs == 1..MaxReqs

-----------------------------------------------------------------------------
(* Values *)

NullInt == 0 - 1    \* SQL NULL in an integer or date column

NoRow == [id |-> 0] \* `undefined`: what a select or update of no row yields

RECURSIVE SeqSum(_)
SeqSum(s) == IF s = <<>> THEN 0 ELSE Head(s) + SeqSum(Tail(s))

Ids(table) == {table[i].id : i \in 1..Len(table)}


NullStr == "<null>" \* null / undefined in a text field

-----------------------------------------------------------------------------
(* Table constraints, src/shared/schema.ts *)

\* teams.name and vendors.name: .notNull().unique()
NameTaken(table, name) == \E i \in 1..Len(table) : table[i].name = name

\* licenses: primary key on id, the two foreign keys, the NOT NULL columns
\* that a caller can leave null.
LicenseRowOk(row, others) ==
    /\ row.id \notin Ids(others)
    /\ row.vendorId \in Ids(vendors)
    /\ row.teamId \in Ids(teams)
    /\ row.softwareName # <<NullStr>>
    /\ row.billingFrequency # NullStr
    /\ row.totalSeats # NullInt
    /\ row.cost # NullInt

-----------------------------------------------------------------------------
(* Ordering *)

\* ORDER BY created_at DESC.  SQL leaves the order of rows with equal keys
\* open; the model keeps them in heap order (a stable insertion sort).
RECURSIVE InsertDesc(_, _)
InsertDesc(row, sorted) ==
    IF sorted = <<>> THEN <<row>>
    ELSE IF Head(sorted).createdAt >= row.createdAt
         THEN <<Head(sorted)>> \o InsertDesc(row, Tail(sorted))
         ELSE <<row>> \o sorted

RECURSIVE OrderByCreatedDesc(_)
OrderByCreatedDesc(rows) ==
    IF rows = <<>> THEN <<>>
    ELSE InsertDesc(rows[Len(rows)],
                    OrderByCreatedDesc(SubSeq(rows, 1, Len(rows) - 1)))

-----------------------------------------------------------------------------
(* IEEE 754 binary64 arithmetic on non-negative values, as JavaScript numbers  *)
(* compute it: every operation returns the exact result rounded to the nearest *)
(* 53-bit value, ties to the even mantissa.                                    *)

MantissaBits == 53

DZero == [e |-> 0, m |-> <<>>]

Zeros(k) == IF k > 0 THEN [i \in 1..k |-> 0] ELSE <<>>

\* 2^k, k < 31.
RECURSIVE Pow2(_)
Pow2(k) ==
    IF k = 0 THEN 1
    ELSE LET h == Pow2(k \div 2) IN IF k % 2 = 0 THEN h * h ELSE 2 * h * h

\* Bit i of a bit sequence extended by zeros.
BitAt(bits, i) == IF i <= Len(bits) THEN bits[i] ELSE 0

\* The mantissa plus one unit in its last place (not all bits are 1).
Increment(bits) ==
    LET k == CHOOSE i \in 1..Len(bits) :
                 bits[i] = 0 /\ \A j \in (i + 1)..Len(bits) : bits[j] = 1
    IN  [i \in 1..Len(bits) |->
            IF i < k THEN bits[i] ELSE IF i = k THEN 1 ELSE 0]

\* Round to nearest, ties to even: the exact value has leading bit weight 2^e
\* and starts with `bits` (the first one is 1); `half` is the first bit
\* dropped after the 53 kept, `more` says that something follows it.
RoundToDouble(e, bits, half, more) ==
    LET m  == SubSeq(bits, 1, MantissaBits)
        up == half = 1 /\ (more \/ m[MantissaBits] = 1)
    IN  IF ~up THEN [e |-> e, m |-> m]
        ELSE IF \A i \in 1..MantissaBits : m[i] = 1
             THEN [e |-> e + 1, m |-> <<1>> \o Zeros(MantissaBits - 1)]
             ELSE [e |-> e, m |-> Increment(m)]

\* Long division by d: the remainders left after each of the positions
\* lo..hi of the bit sequence (extended by zeros), r being the remainder
\* left before position lo.
RECURSIVE Remainders(_, _, _, _, _)
Remainders(bits, lo, hi, r, d) ==
    IF lo > hi THEN <<>>
    ELSE IF lo = hi THEN <<(2 * r + BitAt(bits, lo)) % d>>
    ELSE LET mid  == (lo + hi) \div 2
             left == Remainders(bits, lo, mid, r, d)
         IN  left \o Remainders(bits, mid + 1, hi, left[Len(left)], d)

\* bits / d rounded to a double; the first bit of `bits` has weight 2^e, and
\* the quotient's first 1 is within `lead` positions after Len(bits).
LongDivide(bits, e, d, lead) ==
    LET n     == Len(bits) + lead + MantissaBits
        rems  == Remainders(bits, 1, n, 0, d)
        before(i) == IF i = 1 THEN 0 ELSE rems[i - 1]
        quot  == [i \in 1..n |->
                     IF 2 * before(i) + BitAt(bits, i) >= d THEN 1 ELSE 0]
        first == CHOOSE i \in 1..n :
                     quot[i] = 1 /\ \A j \in 1..(i - 1) : quot[j] = 0
        rem   == rems[first + MantissaBits - 1]
    IN  RoundToDouble(e - first + 1,
                      SubSeq(quot, first, first + MantissaBits - 1),
                      IF 2 * rem >= d THEN 1 ELSE 0,
                      2 * rem > d)

\* The number of bits of n, 0 < n < 2^30.
BitLength(n) == CHOOSE k \in 1..30 : Pow2(k - 1) <= n /\ n < Pow2(k)

\* x / d for a double x and a small positive integer d (JavaScript `x / d`).
DoubleDiv(x, d) ==
    IF x.m = <<>> THEN DZero ELSE LongDivide(x.m, x.e, d, BitLength(d))

\* The double nearest to n / d, 0 <= n < 2^30.
DoubleOfRatio(n, d) ==
    IF n = 0 THEN DZero
    ELSE LET len == BitLength(n)
         IN  LongDivide([i \in 1..len |-> (n \div Pow2(len - i)) % 2],
                        len - 1, d, BitLength(d))

\* Adding the bit sequences a and b: the carries out of positions lo..hi,
\* cin being the carry into position hi.
RECURSIVE Carries(_, _, _, _, _)
Carries(a, b, lo, hi, cin) ==
    IF lo > hi THEN <<>>
    ELSE IF lo = hi THEN <<(a[lo] + b[lo] + cin) \div 2>>
    ELSE LET mid   == (lo + hi) \div 2
             right == Carries(a, b, mid + 1, hi, cin)
         IN  \* the right half first: its carry goes into the left half
             IF right[1] = 0 THEN Carries(a, b, lo, mid, 0) \o right
                             ELSE Carries(a, b, lo, mid, 1) \o right

\* x + y exactly, for two positive values [e, m] with mantissas of any
\* length: the sum, again as [e, m].
ExactAdd(x, y) ==
    LET top     == IF x.e >= y.e THEN x.e ELSE y.e
        lowX    == x.e - Len(x.m)
        lowY    == y.e - Len(y.m)
        low     == IF lowX <= lowY THEN lowX ELSE lowY
        left    == Zeros(top - x.e) \o x.m \o Zeros(lowX - low)
        right   == Zeros(top - y.e) \o y.m \o Zeros(lowY - low)
        len     == Len(left)
        carry   == Carries(left, right, 1, len, 0)
        into(i) == IF i = len THEN 0 ELSE carry[i + 1]
        sum     == [i \in 1..len |-> (left[i] + right[i] + into(i)) % 2]
    IN  IF carry[1] = 1 THEN [e |-> top + 1, m |-> <<1>> \o sum]
                        ELSE [e |-> top, m |-> sum]

\* The double nearest to an exact positive value.
RoundExact(v) ==
    RoundToDouble(v.e, v.m \o Zeros(MantissaBits - Len(v.m)),
                  BitAt(v.m, MantissaBits + 1),
                  \E i \in (MantissaBits + 2)..Len(v.m) : v.m[i] = 1)

\* x + y (JavaScript `x + y`).
DoubleAdd(x, y) ==
    IF x.m = <<>> THEN y
    ELSE IF y.m = <<>> THEN x
    ELSE RoundExact(ExactAdd(x, y))

\* x * k exactly, k given by its bits: x taken once for every 1 bit,
\* doubled for every bit that follows.
RECURSIVE ExactTimes(_, _)
ExactTimes(x, kbits) ==
    IF Len(kbits) = 1 THEN x
    ELSE LET front   == ExactTimes(x, SubSeq(kbits, 1, Len(kbits) - 1))
             doubled == [e |-> front.e + 1, m |-> front.m]
         IN  IF kbits[Len(kbits)] = 0 THEN doubled ELSE ExactAdd(doubled, x)

\* x * k for a double x and an integer k, 0 < k < 2^30 (JavaScript `x * k`).
DoubleTimes(x, k) ==
    IF x.m = <<>> THEN DZero
    ELSE LET len == BitLength(k)
         IN  RoundExact(ExactTimes(x, [i \in 1..len |-> (k \div Pow2(len - i)) % 2]))

\* The integer whose bits are bits[lo..hi].
RECURSIVE BitsValue(_, _, _)
BitsValue(bits, lo, hi) ==
    IF lo > hi THEN 0
    ELSE IF lo = hi THEN bits[lo]
    ELSE LET mid == (lo + hi) \div 2
         IN  BitsValue(bits, lo, mid) * Pow2(hi - mid)
             + BitsValue(bits, mid + 1, hi)

\* Math.round(x) for 0 <= x < 2^30: the nearest integer, a tie going up.
MathRound(x) ==
    IF x.m = <<>> \/ x.e < 0 - 1 THEN 0
    ELSE IF x.e = 0 - 1 THEN 1
    ELSE BitsValue(x.m, 1, x.e + 1) + x.m[x.e + 2]

-----------------------------------------------------------------------------
(* Text *)

UpperCase == <<"A", "B", "C", "D", "E", "F", "G", "H", "I", "J", "K", "L", "M",
               "N", "O", "P", "Q", "R", "S", "T", "U", "V", "W", "X", "Y", "Z">>
LowerCase == <<"a", "b", "c", "d", "e", "f", "g", "h", "i", "j", "k", "l", "m",
               "n", "o", "p", "q", "r", "s", "t", "u", "v", "w", "x", "y", "z">>
Digits    == <<"0", "1", "2", "3", "4", "5", "6", "7", "8", "9">>

\* String.prototype.toLowerCase
toLowerCase(str) ==
    [i \in 1..Len(str) |->
        IF \E k \in 1..Len(UpperCase) : UpperCase[k] = str[i]
        THEN LowerCase[CHOOSE k \in 1..Len(UpperCase) : UpperCase[k] = str[i]]
        ELSE str[i]]

\* SQL `str LIKE pattern`: % matches any run of characters, _ any one
\* character, and a backslash makes the next pattern character literal.
RECURSIVE Like(_, _)
Like(str, pattern) ==
    IF pattern = <<>> THEN str = <<>>
    ELSE IF Head(pattern) = "%"
         THEN Like(str, Tail(pattern)) \/ (str # <<>> /\ Like(Tail(str), pattern))
    ELSE IF str = <<>> THEN FALSE
    ELSE IF Head(pattern) = "\\" /\ Len(pattern) > 1
         THEN Head(str) = pattern[2] /\ Like(Tail(str), Tail(Tail(pattern)))
    ELSE (Head(pattern) = "_" \/ Head(pattern) = Head(str))
         /\ Like(Tail(str), Tail(pattern))

\* A property key that JavaScript treats as an array index: the canonical
\* decimal form of an integer (here of at most 9 digits).
IsArrayIndex(key) ==
    /\ Len(key) \in 1..9
    /\ \A i \in 1..Len(key) : \E k \in 1..Len(Digits) : Digits[k] = key[i]
    /\ (Len(key) > 1 => key[1] # "0")

RECURSIVE IndexValue(_)
IndexValue(key) ==
    IF key = <<>> THEN 0
    ELSE 10 * IndexValue(SubSeq(key, 1, Len(key) - 1))
         + (CHOOSE k \in 1..Len(Digits) : Digits[k] = key[Len(key)]) - 1

\* The keys every object inherits from Object.prototype that are their own
\* lower-case form: `{}[key]` is truthy for them before any assignment.
InheritedKeys == {<<"c", "o", "n", "s", "t", "r", "u", "c", "t", "o", "r">>,
                  <<"_", "_", "p", "r", "o", "t", "o", "_", "_">>}

-----------------------------------------------------------------------------
(* Time: Date in the server's zone.  A zone is [before, after, at]: its    *)
(* offset from UTC, in hours, is `before` until the instant `at` and        *)
(* `after` from then on (a zone without daylight saving has both equal).    *)

HoursPerDay == 24

TzOffset(z, t) == IF t < z.at THEN z.before ELSE z.after

\* The instant at which the wall clock of zone z reads `wall`.
FromLocal(z, wall) ==
    IF wall - z.before < z.at THEN wall - z.before ELSE wall - z.after

\* d = new Date(t); d.setDate(d.getDate() + days): the same wall-clock time
\* `days` local calendar days later.
setDate(z, t, days) == FromLocal(z, t + TzOffset(z, t) + HoursPerDay * days)

\* date.toISOString().split('T')[0]: the UTC calendar date of the instant.
toISODate(t) == t \div HoursPerDay

\* The calendar date the server's wall clock shows.
LocalDate(z, t) == (t + TzOffset(z, t)) \div HoursPerDay

-----------------------------------------------------------------------------
(* DatabaseStorage: the reads, as functions of the tables *)

DefaultDays == 30

\* getAllLicenses(): select ... order by created_at desc
getAllLicenses == OrderByCreatedDesc(licenses)

\* getLicense(id): the row, or undefined
getLicense(id) ==
    IF \E i \in 1..Len(licenses) : licenses[i].id = id
    THEN licenses[CHOOSE i \in 1..Len(licenses) : licenses[i].id = id]
    ELSE NoRow

\* One condition of searchLicenses is pushed for every truthy field of
\* `filters`; an absent field is the empty text (or id 0), which is falsy.
SearchMatches(row, filters) ==
    /\ (filters.search # <<>> =>
            Like(row.softwareName, <<"%">> \o filters.search \o <<"%">>))
    /\ (filters.teamId # 0 => row.teamId = filters.teamId)
    /\ (filters.vendorId # 0 => row.vendorId = filters.vendorId)
    /\ (filters.status # "" => row.status = filters.status)

\* searchLicenses(filters)
searchLicenses(filters) ==
    LET Test(row) == SearchMatches(row, filters)
    IN  OrderByCreatedDesc(SelectSeq(licenses, Test))

\* getExpiringLicenses(days): both bounds are ISO dates, that is UTC dates;
\* futureDate is moved by setDate, which counts local calendar days.  A row
\* with a null expiry_date or status never satisfies the condition.
getExpiringLicenses(days) ==
    LET futureDate == toISODate(setDate(zone, now, days))
        today      == toISODate(now)
        Test(row)  == /\ row.expiryDate # NullInt
                      /\ row.expiryDate <= futureDate
                      /\ row.expiryDate >= today
                      /\ row.status = "active"
    IN  SelectSeq(licenses, Test)

\* Object.entries(obj) lists the array-index keys first, in ascending numeric
\* order, then the other keys in the order they were added.  `added` holds
\* the keys in the order they were added.
ObjectKeys(added) ==
    LET n == Len(added)
        Before(i, j) ==
            IF IsArrayIndex(added[i])
            THEN ~IsArrayIndex(added[j]) \/ IndexValue(added[i]) < IndexValue(added[j])
            ELSE ~IsArrayIndex(added[j]) /\ i < j
        Rank(i) == 1 + Cardinality({j \in 1..n : Before(j, i)})
    IN  [r \in 1..n |-> added[CHOOSE i \in 1..n : Rank(i) = r]]

\* getDuplicateLicenses(): [threw, groups].  The reduce adds a key when
\* acc[key] is falsy and then pushes to acc[key]; for an inherited key
\* acc[key] is Object.prototype's member, which has no push: a TypeError.
getDuplicateLicenses ==
    LET all      == getAllLicenses
        Key(i)   == toLowerCase(all[i].softwareName)
        IsFirst(i) == \A j \in 1..(i - 1) : Key(j) # Key(i)
        firsts   == SelectSeq([i \in 1..Len(all) |-> i], IsFirst)
        added    == [k \in 1..Len(firsts) |-> Key(firsts[k])]
        keys     == ObjectKeys(added)
        Members(key) == LET Same(row) == toLowerCase(row.softwareName) = key
                        IN  SelectSeq(all, Same)
        entries  == [k \in 1..Len(keys) |->
                        [softwareName |-> keys[k], licenses |-> Members(keys[k])]]
        Many(entry) == Len(entry.licenses) > 1
    IN  IF \E i \in 1..Len(all) : Key(i) \in InheritedKeys
        THEN [threw |-> TRUE, groups |-> <<>>]
        ELSE [threw |-> FALSE, groups |-> SelectSeq(entries, Many)]

\* The reduce of getLicenseMetrics over the first n rows: the running total,
\* a double.  cost is a decimal(10,2), read back as text and parsed.
RECURSIVE MonthlyTotal(_, _)
MonthlyTotal(all, n) ==
    IF n = 0 THEN DZero
    ELSE LET total == MonthlyTotal(all, n - 1)
             cost  == DoubleOfRatio(all[n].cost, 100)
             freq  == all[n].billingFrequency
         IN  IF freq = "monthly" THEN DoubleAdd(total, cost)
             ELSE IF freq = "quarterly" THEN DoubleAdd(total, DoubleDiv(cost, 3))
             ELSE IF freq = "annually" THEN DoubleAdd(total, DoubleDiv(cost, 12))
             ELSE total

\* The rest of getLicenseMetrics, from the two lists it has read.
LicenseMetrics(all, expiring) ==
    LET totalSeats == SeqSum([i \in 1..Len(all) |-> all[i].totalSeats])
        usedSeats  == SeqSum([i \in 1..Len(all) |->
                          IF all[i].usedSeats = NullInt THEN 0 ELSE all[i].usedSeats])
    IN  [totalLicenses   |-> Len(all),
         monthlyCost     |-> MathRound(MonthlyTotal(all, Len(all))),
         expiringSoon    |-> Len(expiring),
         utilizationRate |->
             IF totalSeats > 0
             THEN MathRound(DoubleTimes(DoubleOfRatio(usedSeats, totalSeats), 100))
             ELSE 0]

-----------------------------------------------------------------------------
(* Requests.  req[r] = [op, pc, arg, loc, status, res]: the handler slot r  *)
(* runs, the await it is at, its input, its local variables, and once it    *)
(* has answered (pc = "done") the HTTP status and the value it sent.        *)

Idle == [op |-> "idle", pc |-> "idle", arg |-> NoRow, loc |-> NoRow,
         status |-> 0, res |-> NoRow]

Answer(r, op, arg, loc, status, res) ==
    req' = [req EXCEPT ![r] = [op |-> op, pc |-> "done", arg |-> arg, loc |-> loc,
                               status |-> status, res |-> res]]

\* The clock advances.
Tick(maxHour) ==
    /\ now < maxHour
    /\ now' = now + 1
    /\ UNCHANGED <<teams, vendors, licenses, nextId, zone, req>>

\* The handler has sent its response; the slot is free again.
Respond(r) ==
    /\ req[r].pc = "done"
    /\ req' = [req EXCEPT ![r] = Idle]
    /\ UNCHANGED <<teams, vendors, licenses, nextId, now, zone>>

\* The POST /api/licenses handlers under way, each of which may still
\* insert a vendor and a license.
PostsInFlight == {q \in Reqs : req[q].op = "postLicense" /\ req[q].pc # "done"}

\* POST /api/teams: insertTeamSchema.parse, then createTeam.
PostTeam(r, name, maxIds) ==
    /\ req[r].op = "idle"
    /\ nextId + 2 * Cardinality(PostsInFlight) <= maxIds
    /\ IF name = NullStr
       THEN /\ Answer(r, "postTeam", name, NoRow, 400, NoRow)
            /\ UNCHANGED <<teams, nextId>>
       ELSE IF NameTaken(teams, name)
       THEN /\ Answer(r, "postTeam", name, NoRow, 500, NoRow)
            /\ UNCHANGED <<teams, nextId>>
       ELSE LET row == [id |-> nextId, name |-> name, createdAt |-> now]
            IN  /\ teams' = Append(teams, row)
                /\ nextId' = nextId + 1
                /\ Answer(r, "postTeam", name, NoRow, 201, row)
    /\ UNCHANGED <<vendors, licenses, now, zone>>

\* insertLicenseSchema.parse(req.body): every column of licenses that is
\* notNull, has no default and is not omitted must be present, vendorId
\* included; cost and totalSeats must be strings.
ValidLicenseBody(body) ==
    /\ body.softwareName # <<NullStr>>
    /\ body.vendorId # NullStr
    /\ body.teamId # NullInt
    /\ body.totalSeats # NullInt
    /\ body.cost # NullInt
    /\ body.billingFrequency # NullStr

\* cost: parseFloat(text), then toString(), then the store's numeric(10,2),
\* which rounds half away from zero.  The text is a decimal with three
\* fractional digits, given in thousandths.
StoredCost(thousandths) == (thousandths + 5) \div 10

\* POST /api/licenses, up to its first await.
PostLicenseParse(r, body, maxRows, maxIds) ==
    /\ req[r].op = "idle"
    /\ Len(licenses) + Cardinality(PostsInFlight) < maxRows
    /\ nextId + 2 * Cardinality(PostsInFlight) + 1 <= maxIds
    /\ IF ValidLicenseBody(body)
       THEN req' = [req EXCEPT ![r] =
                [op |-> "postLicense", pc |-> "getOrCreateVendor", arg |-> body,
                 loc |-> [vendor |-> NoRow, inserted |-> {}, threw |-> "none"],
                 status |-> 0, res |-> NoRow]]
       ELSE Answer(r, "postLicense", body,
                   [vendor |-> NoRow, inserted |-> {}, threw |-> "parse"], 400, NoRow)
    /\ UNCHANGED <<teams, vendors, licenses, nextId, now, zone>>

\* getOrCreateVendor(name), the select: the vendor of that name, if any.
GetOrCreateVendorSelect(r) ==
    /\ req[r].op = "postLicense" /\ req[r].pc = "getOrCreateVendor"
    /\ LET name == req[r].arg.vendorName
       IN  IF NameTaken(vendors, name)
           THEN LET row == vendors[CHOOSE i \in 1..Len(vendors) : vendors[i].name = name]
                IN  req' = [req EXCEPT ![r].pc = "createLicense", ![r].loc.vendor = row]
           ELSE req' = [req EXCEPT ![r].pc = "createVendor"]
    /\ UNCHANGED <<teams, vendors, licenses, nextId, now, zone>>

\* getOrCreateVendor(name), the createVendor({ name }) after a select that
\* found nothing: the insert fails on the unique name, and the handler
\* answers 500.
GetOrCreateVendorCreate(r) ==
    /\ req[r].op = "postLicense" /\ req[r].pc = "createVendor"
    /\ LET name == req[r].arg.vendorName
       IN  IF NameTaken(vendors, name)
           THEN /\ Answer(r, "postLicense", req[r].arg,
                          [req[r].loc EXCEPT !.threw = "createVendor"], 500, NoRow)
                /\ UNCHANGED <<vendors, nextId>>
           ELSE LET row == [id |-> nextId, name |-> name, createdAt |-> now]
                IN  /\ vendors' = Append(vendors, row)
                    /\ nextId' = nextId + 1
                    /\ req' = [req EXCEPT ![r].pc = "createLicense",
                                          ![r].loc.vendor = row,
                                          ![r].loc.inserted = {row.id}]
    /\ UNCHANGED <<teams, licenses, now, zone>>

\* The row createLicense inserts: the parsed body, the vendor's id, and the
\* column defaults.
NewLicense(body, vendorId, id) ==
    [id |-> id, softwareName |-> body.softwareName, vendorId |-> vendorId,
     teamId |-> body.teamId, totalSeats |-> body.totalSeats, usedSeats |-> 0,
     cost |-> StoredCost(body.cost), billingFrequency |-> body.billingFrequency,
     expiryDate |-> body.expiryDate, status |-> "active",
     createdAt |-> now, updatedAt |-> now]

\* POST /api/licenses, createLicense({...licenseData, vendorId: vendor.id}).
PostLicenseCreate(r) ==
    /\ req[r].op = "postLicense" /\ req[r].pc = "createLicense"
    /\ LET row == NewLicense(req[r].arg, req[r].loc.vendor.id, nextId)
       IN  IF LicenseRowOk(row, licenses)
           THEN /\ licenses' = Append(licenses, row)
                /\ nextId' = nextId + 1
                /\ Answer(r, "postLicense", req[r].arg,
                          [req[r].loc EXCEPT !.inserted = @ \cup {row.id}], 201, row)
           ELSE /\ Answer(r, "postLicense", req[r].arg,
                          [req[r].loc EXCEPT !.threw = "createLicense"], 500, NoRow)
                /\ UNCHANGED <<licenses, nextId>>
    /\ UNCHANGED <<teams, vendors, now, zone>>

\* updateLicense(id, license): .set({ ...license, updatedAt: new Date() })
\* on the rows with that id, .returning(); [threw, row, table].  With no
\* such row the update changes nothing and returns no row: `undefined`.
updateLicense(id, patch) ==
    IF \A i \in 1..Len(licenses) : licenses[i].id # id
    THEN [threw |-> FALSE, row |-> NoRow, table |-> licenses]
    ELSE LET k      == CHOOSE i \in 1..Len(licenses) : licenses[i].id = id
             old    == licenses[k]
             new    == [c \in DOMAIN old |->
                           IF c = "updatedAt" THEN now
                           ELSE IF c \in DOMAIN patch THEN patch[c] ELSE old[c]]
             Other(row) == row.id # id
         IN  IF LicenseRowOk(new, SelectSeq(licenses, Other))
             THEN [threw |-> FALSE, row |-> new,
                   table |-> [licenses EXCEPT ![k] = new]]
             ELSE [threw |-> TRUE, row |-> NoRow, table |-> licenses]

\* PUT /api/licenses/:id: updateLicense(req.params.id, req.body), the body
\* unvalidated; res.json(license), or 500 when the update throws.
PutLicense(r, id, patch) ==
    /\ req[r].op = "idle"
    /\ LET u == updateLicense(id, patch)
       IN  /\ licenses' = u.table
           /\ Answer(r, "putLicense", [id |-> id, patch |-> patch],
                     [found |-> getLicense(id) # NoRow, threw |-> u.threw],
                     IF u.threw THEN 500 ELSE 200, u.row)
    /\ UNCHANGED <<teams, vendors, nextId, now, zone>>

\* deleteLicense with the where clause left out: every row goes.
deleteLicenseNoWhere(id) == <<>>

\* deleteLicense(id): delete from licenses where id = ...
deleteLicense(id) ==
    LET Other(row) == row.id # id IN SelectSeq(licenses, Other)

\* DELETE /api/licenses/:id
DeleteLicense(r, id) ==
    /\ req[r].op = "idle"
    /\ licenses' = deleteLicense(id)
    /\ Answer(r, "deleteLicense", [id |-> id],
              [found |-> getLicense(id) # NoRow, threw |-> FALSE], 204, NoRow)
    /\ UNCHANGED <<teams, vendors, nextId, now, zone>>

\* GET /api/analytics/metrics, getLicenseMetrics up to its second await:
\* allLicenses = await this.getAllLicenses().
MetricsReadAll(r) ==
    /\ req[r].op = "idle"
    /\ req' = [req EXCEPT ![r] =
            [op |-> "getMetrics", pc |-> "getExpiringLicenses", arg |-> NoRow,
             loc |-> [allLicenses |-> getAllLicenses], status |-> 0, res |-> NoRow]]
    /\ UNCHANGED <<teams, vendors, licenses, nextId, now, zone>>

\* getLicenseMetrics from expiring = await this.getExpiringLicenses(30) on.
MetricsReadExpiring(r) ==
    /\ req[r].op = "getMetrics" /\ req[r].pc = "getExpiringLicenses"
    /\ Answer(r, "getMetrics", NoRow, req[r].loc, 200,
              LicenseMetrics(req[r].loc.allLicenses, getExpiringLicenses(DefaultDays)))
    /\ UNCHANGED <<teams, vendors, licenses, nextId, now, zone>>

-----------------------------------------------------------------------------
(* Inputs *)

UTC == [before |-> 0, after |-> 0, at |-> 0]

\* A zone two hours east of UTC, and one that goes from two hours to one
\* hour east of UTC (the end of daylight saving) at hour 30.
Zones == {UTC,
          [before |-> 2, after |-> 2, at |-> 0],
          [before |-> 2, after |-> 1, at |-> 30]}

\* A request body of POST /api/licenses.
Body(softwareName, vendorName, teamId, cost, billingFrequency, expiryDate) ==
    [softwareName |-> softwareName, vendorName |-> vendorName, vendorId |-> "",
     teamId |-> teamId, totalSeats |-> 10, cost |-> cost,
     billingFrequency |-> billingFrequency, expiryDate |-> expiryDate]

\* An id of a license, or an id that no row has.
SomeId == Ids(licenses) \cup {nextId}

\* The store after construction.
Empty ==
    /\ teams = <<>>
    /\ vendors = <<>>
    /\ licenses = <<>>
    /\ nextId = 1
    /\ now = 0
    /\ req = [r \in Reqs |-> Idle]

\* The store after POST /api/teams and POST /api/vendors, twice each.
Seeded ==
    /\ teams = <<[id |-> 1, name |-> "eng", createdAt |-> 0],
                 [id |-> 3, name |-> "ops", createdAt |-> 0]>>
    /\ vendors = <<[id |-> 2, name |-> "acme", createdAt |-> 0],
                   [id |-> 4, name |-> "initech", createdAt |-> 0]>>
    /\ licenses = <<>>
    /\ nextId = 5
    /\ now = 0
    /\ req = [r \in Reqs |-> Idle]

-----------------------------------------------------------------------------
(* Spec: the handlers that write, two at a time *)

StoreBodies ==
    {Body(<<"z">>, "acme", teamId, 1000, "monthly", NullInt) : teamId \in {1, 2}}
    \cup {Body(<<NullStr>>, "acme", 1, 1000, "monthly", NullInt)}

StorePatches == {[status |-> "cancelled"], [createdAt |-> MaxHour]}

Init == Empty /\ zone = UTC

Next ==
    \/ Tick(MaxHour)
    \/ \E r \in Reqs : Respond(r)
    \/ \E r \in Reqs : PostTeam(r, "eng", MaxIds)
    \/ \E r \in Reqs, body \in StoreBodies :
           PostLicenseParse(r, body, MaxLicenses, MaxIds)
    \/ \E r \in Reqs : GetOrCreateVendorSelect(r)
    \/ \E r \in Reqs : GetOrCreateVendorCreate(r)
    \/ \E r \in Reqs : PostLicenseCreate(r)
    \/ \E r \in Reqs, id \in SomeId, patch \in StorePatches : PutLicense(r, id, patch)
    \/ \E r \in Reqs, id \in SomeId : DeleteLicense(r, id)

Spec == Init /\ [][Next]_vars

-----------------------------------------------------------------------------
(* Claims checked under Spec *)

\* The handler r has returned from getOrCreateVendor, normally or not.
CalledGetOrCreateVendor(r) ==
    /\ req[r].op = "postLicense"
    /\ req[r].pc \in {"createLicense", "done"}
    /\ req[r].loc.threw # "parse"

\* C1: two calls of getOrCreateVendor with the same name, in sequence or
\* interleaved, both return a vendor, the same one, and one vendor row has
\* that name.
C1_SameVendorTwice ==
    \A r1, r2 \in Reqs :
        (/\ r1 # r2
         /\ CalledGetOrCreateVendor(r1) /\ CalledGetOrCreateVendor(r2)
         /\ req[r1].arg.vendorName = req[r2].arg.vendorName)
        => /\ req[r1].loc.threw # "createVendor"
           /\ req[r2].loc.threw # "createVendor"
           /\ req[r1].loc.vendor.id = req[r2].loc.vendor.id
           /\ Cardinality({i \in 1..Len(vendors) :
                  vendors[i].name = req[r1].arg.vendorName}) = 1

\* C2: updateLicense on an id that matches no row fails (NotFound) instead
\* of returning a result.
C2_UpdateMissingFails ==
    \A r \in Reqs :
        (req[r].op = "putLicense" /\ req[r].pc = "done" /\ ~req[r].loc.found)
        => req[r].loc.threw /\ req[r].status # 200

\* C7: a step of deleteLicense(id) ends without error in a state where
\* getLicense(id) finds nothing; it leaves teams and vendors alone and takes
\* from licenses the row with that id and no other (no row, if there is none).
C7_DeleteThenNotFound ==
    [][\A r \in Reqs, id \in SomeId :
          (req[r].op = "idle" /\ req'[r].op = "deleteLicense" /\ req'[r].arg.id = id)
          => LET Other(row) == row.id # id
             IN  /\ getLicense(id)' = NoRow
                 /\ req'[r].status = 204 /\ ~req'[r].loc.threw
                 /\ teams' = teams /\ vendors' = vendors
                 /\ licenses' = SelectSeq(licenses, Other)
                 /\ (getLicense(id) = NoRow => licenses' = licenses)]_vars

\* C7, witness: a delete of an existing license has answered and another
\* license is still there.
C7_Witness ==
    \E r \in Reqs :
        /\ req[r].op = "deleteLicense" /\ req[r].pc = "done" /\ req[r].loc.found
        /\ Len(licenses) > 0

\* C8: a successful updateLicense of an existing license returns a row whose
\* updated timestamp is later than its created timestamp.
C8_UpdatedAfterCreated ==
    \A r \in Reqs :
        (/\ req[r].op = "putLicense" /\ req[r].pc = "done"
         /\ req[r].loc.found /\ req[r].status = 200)
        => req[r].res.updatedAt > req[r].res.createdAt

\* C9: a POST /api/licenses that answers 400 or 500 has inserted no row.
C9_FailedPostInsertsNothing ==
    \A r \in Reqs :
        (req[r].op = "postLicense" /\ req[r].pc = "done" /\ req[r].status # 201)
        => req[r].loc.inserted = {}

-----------------------------------------------------------------------------
(* SpecMetrics: one handler that creates and deletes licenses, and the       *)
(* metrics handler beside it                                                 *)

MetricBodies ==
    {Body(<<"z">>, "acme", 1, 13200, billingFrequency, 1) :
        billingFrequency \in {"monthly", "quarterly", "annually", "one-time"}}

InitMetrics == Seeded /\ zone = UTC

NextMetrics ==
    \/ Respond(1)
    \/ Respond(2)
    \/ \E body \in MetricBodies : PostLicenseParse(1, body, MaxLicenses, MaxMetricIds)
    \/ GetOrCreateVendorSelect(1)
    \/ PostLicenseCreate(1)
    \/ \E id \in SomeId : DeleteLicense(1, id)
    \/ MetricsReadAll(2)
    \/ MetricsReadExpiring(2)

SpecMetrics == InitMetrics /\ [][NextMetrics]_vars

\* The monthly-equivalent cost of a license, in 1200ths of a currency unit.
MonthlyEquivalent(row) ==
    IF row.billingFrequency = "monthly" THEN 12 * row.cost
    ELSE IF row.billingFrequency = "quarterly" THEN 4 * row.cost
    ELSE IF row.billingFrequency = "annually" THEN row.cost
    ELSE 0

\* The sum of the monthly-equivalent costs, rounded once to the nearest
\* integer (a tie going up, as Math.round does).
RoundedMonthlyCost(all) ==
    LET sum == SeqSum([i \in 1..Len(all) |-> MonthlyEquivalent(all[i])])
    IN  (2 * sum + 1200) \div 2400

\* C6: monthlyCost is the sum of the monthly-equivalent costs of all
\* licenses, rounded to the nearest integer once after summing.
C6_MonthlyCostIsRoundedSum ==
    \A r \in Reqs :
        (req[r].op = "getMetrics" /\ req[r].pc = "done")
        => req[r].res.monthlyCost = RoundedMonthlyCost(req[r].loc.allLicenses)

\* C10: every result of getLicenseMetrics has expiringSoon <= totalLicenses.
C10_ExpiringWithinTotal ==
    \A r \in Reqs :
        (req[r].op = "getMetrics" /\ req[r].pc = "done")
        => req[r].res.expiringSoon <= req[r].res.totalLicenses

-----------------------------------------------------------------------------
(* SpecSearch: one handler at a time fills the store; searchLicenses is      *)
(* stated for every filters object                                           *)

SearchBodies ==
    {Body(softwareName, vendorName, teamId, 1000, "monthly", NullInt) :
        softwareName \in {<<"a", "b">>, <<"b">>},
        vendorName \in {"acme", "initech"},
        teamId \in {1, 3}}

SearchFilters ==
    [search : {<<>>, <<"b">>, <<"a", "b">>, <<"_">>}, teamId : {0, 1, 3},
     vendorId : {0, 2, 4}, status : {"", "active", "cancelled"}]

InitSearch == Seeded /\ zone = UTC

NextSearch ==
    \/ Tick(1)
    \/ Respond(1)
    \/ \E body \in SearchBodies : PostLicenseParse(1, body, MaxLicenses, MaxRowIds)
    \/ GetOrCreateVendorSelect(1)
    \/ PostLicenseCreate(1)
    \/ \E id \in SomeId : PutLicense(1, id, [status |-> "cancelled"])

SpecSearch == InitSearch /\ [][NextSearch]_vars

\* sub occurs in str as a run of consecutive characters.
Contains(str, sub) ==
    \E i \in 0..(Len(str) - Len(sub)) : SubSeq(str, i + 1, i + Len(sub)) = sub

\* The predicates of the fields that are present.
SatisfiesFilters(row, filters) ==
    /\ (filters.search # <<>> => Contains(row.softwareName, filters.search))
    /\ (filters.teamId # 0 => row.teamId = filters.teamId)
    /\ (filters.vendorId # 0 => row.vendorId = filters.vendorId)
    /\ (filters.status # "" => row.status = filters.status)

\* C3: searchLicenses(filters) returns exactly the licenses that satisfy
\* every present predicate, the search text as a substring of softwareName,
\* newest first; with no field present it returns getAllLicenses().
C3_SearchIsConjunction ==
    \A filters \in SearchFilters :
        LET Test(row) == SatisfiesFilters(row, filters)
        IN  searchLicenses(filters) = SelectSeq(getAllLicenses, Test)

-----------------------------------------------------------------------------
(* SpecExpiry: a server started at any hour in any of the zones              *)

ExpiryBodies ==
    {Body(<<"z">>, "acme", 1, 1000, "monthly", expiryDate) :
        expiryDate \in {NullInt, 0, 1, 2, 3, 4}}

InitExpiry ==
    /\ Seeded
    /\ zone \in Zones

NextExpiry ==
    \/ Tick(MaxClock)
    \/ Respond(1)
    \/ \E body \in ExpiryBodies : PostLicenseParse(1, body, 1, MaxRowIds)
    \/ GetOrCreateVendorSelect(1)
    \/ PostLicenseCreate(1)
    \/ \E id \in SomeId : PutLicense(1, id, [status |-> "cancelled"])
    \/ \E id \in SomeId : DeleteLicense(1, id)

SpecExpiry == InitExpiry /\ [][NextExpiry]_vars

\* C4: getExpiringLicenses(days) returns exactly the active licenses whose
\* expiryDate lies in [today, today + days], today being the calendar date
\* at the server.
C4_ExpiringWindow ==
    \A days \in 0..MaxDays :
        LET today == LocalDate(zone, now)
            Test(row) == /\ row.status = "active"
                         /\ row.expiryDate # NullInt
                         /\ today <= row.expiryDate
                         /\ row.expiryDate <= today + days
        IN  getExpiringLicenses(days) = SelectSeq(licenses, Test)

-----------------------------------------------------------------------------
(* SpecDuplicates: licenses under names of every kind                        *)

DuplicateBodies ==
    {Body(softwareName, "acme", 1, 1000, "monthly", NullInt) :
        softwareName \in {<<"Z", "o", "o", "m">>, <<"z", "o", "o", "m">>,
                          <<"7">>,
                          <<"C", "o", "n", "s", "t", "r", "u", "c", "t", "o", "r">>}}

InitDuplicates == Seeded /\ zone = UTC

NextDuplicates ==
    \/ Respond(1)
    \/ \E body \in DuplicateBodies : PostLicenseParse(1, body, MaxNames, MaxRowIds)
    \/ GetOrCreateVendorSelect(1)
    \/ PostLicenseCreate(1)
    \/ \E id \in SomeId : DeleteLicense(1, id)

SpecDuplicates == InitDuplicates /\ [][NextDuplicates]_vars

\* One group per lower-cased name, in the order the names are first seen in
\* the list; the groups of two or more licenses.
GroupsFirstSeen(all) ==
    LET Key(i)     == toLowerCase(all[i].softwareName)
        IsFirst(i) == \A j \in 1..(i - 1) : Key(j) # Key(i)
        firsts     == SelectSeq([i \in 1..Len(all) |-> i], IsFirst)
        Members(key) == LET Same(row) == toLowerCase(row.softwareName) = key
                        IN  SelectSeq(all, Same)
        groups     == [k \in 1..Len(firsts) |->
                          [softwareName |-> Key(firsts[k]),
                           licenses |-> Members(Key(firsts[k]))]]
        Many(group) == Len(group.licenses) > 1
    IN  SelectSeq(groups, Many)

\* C5: getDuplicateLicenses() returns, for every softwareName value, the
\* groups of two or more licenses that share a lower-cased name, in the
\* order in which the names are first seen.
C5_DuplicateGroups ==
    getDuplicateLicenses = [threw |-> FALSE, groups |-> GroupsFirstSeen(getAllLicenses)]

=============================================================================
